---- MODULE Spec2Model ----
(***************************************************************************)
(* Model of the OpenCode provider of workmate (contexts/OpenCodeContext,   *)
(* kept in src/unnamed/part_006) and of the zustand store it drives        *)
(* (src/src/stores/appStore.ts).                                           *)
(*                                                                         *)
(* JavaScript runs every callback to its next await without interleaving,  *)
(* so one action is one such run: the handling of one SSE event, the       *)
(* synchronous prefix of an async operation, or the continuation that runs *)
(* when an awaited request returns.  Requests that are awaited are kept in *)
(* the in-flight variables until their continuation runs.                  *)
(*                                                                         *)
(* Message.timestamp and Session.createdAt/messageCount are written but    *)
(* never read by any operation of the provider; they are not modelled.     *)
(***************************************************************************)
EXTENDS Integers, Sequences, FiniteSets, TLC

\* ------------------------------------------------------------------ bounds
MaxMsgs    == 2    \* messages the Store may hold
MaxParts   == 2    \* parts one message may hold
MaxSends   == 1    \* sendMessage calls
MaxBurst   == 2    \* sendMessage calls where sends follow one another
MaxCreates == 1    \* sessions created by this client
MaxFlight  == 1    \* requests of one kind awaiting their response
MaxLogged  == 2    \* console.error lines of the stream handlers kept
MaxModelLen == 5   \* pieces of a model identifier

NULL == "null"     \* null / undefined / absent property

\* ------------------------------------------------------- the environment
\* Ids the server gives to messages: the role of a message never changes.
AssistantIds == {"m1", "m2"}
ServerUserIds == {"s1"}
ServerMsgIds == AssistantIds \cup ServerUserIds
ServerRole(id) == IF id \in ServerUserIds THEN "user" ELSE "assistant"

PartIds == {"p1", "p2"}
Texts == {"a", "b"}

\* Sessions that exist on the server before this client creates any.
ServerSessionIds == {"A", "B"}
NewSessionId(n) == "N" \o ToString(n)
SessionIds == ServerSessionIds \cup {NewSessionId(n) : n \in 1..MaxCreates}

\* ------------------------------------------------- the model identifier
\* A string is held as the sequence of its pieces: the separator "/" and
\* the runs of other characters between separators.
Slash == "/"

IsString(str) ==
  \A i \in 1..(Len(str) - 1) : str[i] = Slash \/ str[i + 1] = Slash

\* no piece between separators is empty
IsPath(str) ==
  /\ Len(str) > 0 /\ str[1] # Slash /\ str[Len(str)] # Slash
  /\ \A i \in 1..(Len(str) - 1) : str[i] # Slash \/ str[i + 1] # Slash

\* The identifiers and providers the settings may hold: names of models
\* as the provider lists give them, with any number of "/".
ModelIds ==
  {str \in UNION {[1..n -> {"m", "n", Slash}] : n \in 1..MaxModelLen} :
     IsString(str) /\ IsPath(str)}

Providers == {<<"openrouter">>, <<"p">>}

\* config of the store as constructed
defaultConfig ==
  [selectedModel |-> <<"anthropic", Slash, "claude-sonnet-4-20250514">>,
   selectedProvider |-> <<"openrouter">>]

\* str.includes("/")
includesSlash(str) == \E i \in 1..Len(str) : str[i] = Slash

RECURSIVE split(_)
\* str.split("/"): every piece between separators, empty ones included
split(str) ==
  IF ~includesSlash(str) THEN <<str>>
  ELSE LET i == CHOOSE k \in 1..Len(str) :
                  str[k] = Slash /\ \A j \in 1..(k - 1) : str[j] # Slash
       IN <<SubSeq(str, 1, i - 1)>> \o split(SubSeq(str, i + 1, Len(str)))

\* const [providerID, modelID] = selectedModel.includes("/")
\*   ? selectedModel.split("/") : [selectedProvider, selectedModel]
parseModel(cfg) ==
  IF includesSlash(cfg.selectedModel)
  THEN [providerID |-> split(cfg.selectedModel)[1],
        modelID |-> split(cfg.selectedModel)[2]]
  ELSE [providerID |-> cfg.selectedProvider, modelID |-> cfg.selectedModel]

VARIABLES
  client,             \* clientRef.current is set (connected)
  messages,           \* useAppStore.messages
  sessions,           \* useAppStore.sessions
  isLoading,          \* useAppStore.isLoading
  pendingPermission,  \* useAppStore.pendingPermission
  error,              \* provider state `error`
  currentSessionId,   \* provider state `currentSessionId`
  lastMessageId,      \* lastMessageIdRef.current (active assistant message)
  userMessageIds,     \* userMessageIdsRef.current
  pendingSessionId,   \* pendingSessionIdRef.current
  clock,              \* number of Date.now() readings that named a message
  created,            \* number of sessions the server created for us
  loads,              \* session id -> history fetches awaiting a response
  prompts,            \* "send"/"regen" -> promptAsync bodies awaiting
  creating,           \* sendMessage texts awaiting session.create
  listing,            \* session.list calls awaiting a response
  calls,              \* session.abort / session.delete calls awaiting
  conn,               \* the EventSource, and what its handlers logged
  config,             \* useAppStore.config: selectedModel, selectedProvider
  lastOp              \* the last step taken and the branch it took

vars == <<client, messages, sessions, isLoading, pendingPermission, error,
          currentSessionId, lastMessageId, userMessageIds, pendingSessionId,
          clock, created, loads, prompts, creating, listing, calls, conn,
          config, lastOp>>

\* ------------------------------------------------------------ the Store
\* Array.prototype.findIndex: the first index satisfying Test, 0 for -1.
FindIndex(seq, Test(_)) ==
  IF \E i \in 1..Len(seq) : Test(seq[i])
  THEN CHOOSE i \in 1..Len(seq) :
         Test(seq[i]) /\ \A j \in 1..(i - 1) : ~Test(seq[j])
  ELSE 0

HasMessage(msgs, id) == \E i \in 1..Len(msgs) : msgs[i].id = id

\* messages.find(m => m.id === id)?.parts || []
PartsOf(msgs, id) ==
  LET IsIt(m) == m.id = id
      i == FindIndex(msgs, IsIt)
  IN IF i = 0 THEN <<>> ELSE msgs[i].parts

addMessage(msgs, message) == Append(msgs, message)

\* { ...m, ...updates } for every message with that id
updateMessage(msgs, id, updates) ==
  [i \in 1..Len(msgs) |->
     IF msgs[i].id = id
     THEN [k \in DOMAIN msgs[i] |->
             IF k \in DOMAIN updates THEN updates[k] ELSE msgs[i][k]]
     ELSE msgs[i]]

RECURSIVE JoinContents(_)
\* parts.map(p => p.content).join("\n")
JoinContents(parts) ==
  IF Len(parts) = 0 THEN ""
  ELSE IF Len(parts) = 1 THEN parts[1].content
  ELSE parts[1].content \o "\n" \o JoinContents(Tail(parts))

IsTextPart(p) == p.type = "text"

\* parts.filter(p => p.type === "text").map(p => p.content).join("\n")
TextContent(parts) == JoinContents(SelectSeq(parts, IsTextPart))

\* A MessagePart; the fields a variant does not set are NULL.
Part(type, id, content) ==
  [type |-> type, id |-> id, content |-> content, toolName |-> NULL,
   toolInput |-> NULL, toolOutput |-> NULL, toolError |-> NULL,
   status |-> NULL]

\* the message the handler creates for an assistant id it has not seen
StubMessage(id) ==
  [id |-> id, role |-> "assistant", content |-> "", status |-> "streaming",
   parts |-> <<>>]

\* UpsertAt as it would be if the index found were not used
UpsertAt_AlwaysAppend(parts, idx, newPart) == Append(parts, newPart)

\* newParts: replace at the index found, else append
UpsertAt(parts, idx, newPart) ==
  IF idx > 0 THEN [parts EXCEPT ![idx] = newPart] ELSE Append(parts, newPart)

\* ------------------------------------------------- JSON of tool payloads
\* JSON.parse succeeds on these output strings only.
IsJson(s) == s \in {"[1]"}
\* the value JSON.parse returns, as a token
JsonParse(s) == "json:" \o s
\* JSON.stringify(value, null, 2)
Pretty(v) ==
  CASE v = "json:[1]" -> "[\n  1\n]"
    [] v = "{}"       -> "{}"
    [] v = "in"       -> "{\n  \"cmd\": \"ls\"\n}"
    [] OTHER          -> v

\* ------------------------------------------------------- handleEvent
\* The handler reads and writes the Store and the three refs.  It is
\* written as a function of a record of those (the view) so that the same
\* definition drives the HandleEvent action and the properties about it.
\* mk and br name the branch taken: mk for the "ensure we have an assistant
\* message" step, br for the rest.
View ==
  [messages |-> messages, sessions |-> sessions, isLoading |-> isLoading,
   pendingPermission |-> pendingPermission, error |-> error,
   lastMessageId |-> lastMessageId, userMessageIds |-> userMessageIds,
   pendingSessionId |-> pendingSessionId, mk |-> "none", br |-> "none"]

\* pendingPermission === null
NoPermission == [id |-> NULL, type |-> NULL]

\* case "permission.request"
onPermissionRequest(S, e) ==
  [S EXCEPT !.pendingPermission = [id |-> e.id, type |-> e.ptype],
            !.br = "permission"]

\* onMessage as it would be if the message were added without looking
\* for its id
onMessage_AlwaysAdds(S, e) ==
  LET msg == e.info
      S1 == IF msg.role = "user"
            THEN [S EXCEPT !.userMessageIds = @ \cup {msg.id}, !.br = "user"]
            ELSE S
  IN IF msg.role = "assistant"
     THEN [S1 EXCEPT !.lastMessageId = msg.id,
                     !.messages = addMessage(@, StubMessage(msg.id)),
                     !.mk = "created", !.br = "assistant"]
     ELSE S1

\* case "message.created" / "message.updated"
onMessage(S, e) ==
  LET msg == e.info
      S1 == IF msg.role = "user"
            THEN [S EXCEPT !.userMessageIds = @ \cup {msg.id}, !.br = "user"]
            ELSE S
  IN IF msg.role = "assistant"
     THEN IF ~HasMessage(S1.messages, msg.id)
          THEN [S1 EXCEPT !.lastMessageId = msg.id,
                          !.messages = addMessage(@, StubMessage(msg.id)),
                          !.mk = "created", !.br = "assistant"]
          ELSE [S1 EXCEPT !.lastMessageId = msg.id,
                          !.mk = "adopted", !.br = "assistant"]
     ELSE S1

\* ensureAssistant as it would be if the created message were not made
\* the active one
ensureAssistant_NotActive(S, messageId) ==
  IF messageId # NULL /\ S.lastMessageId = NULL
  THEN IF ~HasMessage(S.messages, messageId)
       THEN [S EXCEPT !.messages = addMessage(@, StubMessage(messageId)),
                      !.mk = "created"]
       ELSE [S EXCEPT !.lastMessageId = messageId, !.mk = "adopted"]
  ELSE S

\* "Ensure we have an assistant message to update"
ensureAssistant(S, messageId) ==
  IF messageId # NULL /\ S.lastMessageId = NULL
  THEN IF ~HasMessage(S.messages, messageId)
       THEN [S EXCEPT !.lastMessageId = messageId,
                      !.messages = addMessage(@, StubMessage(messageId)),
                      !.mk = "created"]
       ELSE [S EXCEPT !.lastMessageId = messageId, !.mk = "adopted"]
  ELSE S

\* the MessagePart built from a part of type "tool"
toolPart(part) ==
  LET toolState == part.state
      base == [Part("tool_use", part.id, "") EXCEPT
                 !.toolName = part.tool, !.toolInput = toolState.input]
  IN CASE toolState.status = "completed" ->
            LET out == toolState.output
                outputObj == IF out # NULL /\ IsJson(out)
                             THEN JsonParse(out) ELSE out
                outputContent == IF out = NULL THEN ""
                                 ELSE IF IsJson(out) THEN Pretty(outputObj)
                                 ELSE out
            IN [base EXCEPT !.type = "tool_result",
                            !.content = outputContent,
                            !.toolOutput = outputObj,
                            !.status = "completed"]
       [] toolState.status = "error" ->
            [base EXCEPT !.type = "tool_result",
                         !.toolError = IF toolState.error # NULL
                                       THEN toolState.error
                                       ELSE "Tool execution failed",
                         !.status = "error"]
       [] OTHER ->
            [base EXCEPT !.content = Pretty(IF toolState.input # NULL
                                            THEN toolState.input ELSE "{}"),
                         !.status = toolState.status]

\* part.text || ""
textOf(part) == IF part.text # NULL THEN part.text ELSE ""

\* partIndex as it would be if the lookup never matched
partIndex_NotFound(currentParts, part) == 0

\* partIndex as it would be if a tool were looked up among the
\* invocations only
partIndex_InvocationsOnly(currentParts, part) ==
  LET SameText(p) == p.type = "text" /\ p.id = part.id
      SameReasoning(p) == p.type = "reasoning" /\ p.id = part.id
      SameTool(p) == p.type = "tool_use" /\ p.id = part.id
  IN CASE part.type = "text" -> FindIndex(currentParts, SameText)
       [] part.type = "reasoning" -> FindIndex(currentParts, SameReasoning)
       [] part.type = "tool" -> FindIndex(currentParts, SameTool)
       [] OTHER -> 0

\* the index the handler looks up for the part, 0 when there is none
partIndex(currentParts, part) ==
  LET SameText(p) == p.type = "text" /\ p.id = part.id
      SameReasoning(p) == p.type = "reasoning" /\ p.id = part.id
      SameTool(p) == p.type \in {"tool_use", "tool_result"} /\ p.id = part.id
  IN CASE part.type = "text" -> FindIndex(currentParts, SameText)
       [] part.type = "reasoning" -> FindIndex(currentParts, SameReasoning)
       [] part.type = "tool" -> FindIndex(currentParts, SameTool)
       [] OTHER -> 0

\* the part the handler stores for the event's part
newPartOf(part) ==
  CASE part.type = "text" -> Part("text", part.id, textOf(part))
    [] part.type = "reasoning" -> Part("reasoning", part.id, textOf(part))
    [] OTHER -> toolPart(part)

\* partUpdates as it would be if the text branch left content alone
partUpdates_KeepContent(part, newParts) ==
  [status |-> "streaming", parts |-> newParts]

\* the updates passed to updateMessage: only a text part rewrites content
partUpdates(part, newParts) ==
  IF part.type = "text"
  THEN [content |-> TextContent(newParts), status |-> "streaming",
        parts |-> newParts]
  ELSE [status |-> "streaming", parts |-> newParts]

\* targetOf as it would be if the message the part names came first
targetOf_PrefersNamed(S, messageId) ==
  IF messageId # NULL THEN messageId ELSE S.lastMessageId

\* targetId = lastMessageIdRef.current || messageId
targetOf(S, messageId) ==
  IF S.lastMessageId # NULL THEN S.lastMessageId ELSE messageId

\* the part of the case after the user-message check
applyPart(S, e) ==
  LET part == e.part
      messageId == part.messageID
      S1 == ensureAssistant(S, messageId)
      targetId == targetOf(S1, messageId)
      currentParts == PartsOf(S1.messages, targetId)
      idx == partIndex(currentParts, part)
      newParts == UpsertAt(currentParts, idx, newPartOf(part))
  IN IF targetId = NULL THEN [S1 EXCEPT !.br = "noTarget"]
     ELSE IF part.type \notin {"text", "reasoning", "tool"}
     THEN [S1 EXCEPT !.br = "otherType"]
     ELSE [S1 EXCEPT
             !.messages = updateMessage(@, targetId,
                                        partUpdates(part, newParts)),
             !.br = IF ~HasMessage(S1.messages, targetId) THEN "missing"
                    ELSE IF idx > 0 THEN "replace" ELSE "append"]

\* onPartUpdated as it would be without the user-message check
onPartUpdated_NoSkip(S, e) == applyPart(S, e)

\* case "message.part.updated"
onPartUpdated(S, e) ==
  IF e.part.messageID # NULL /\ e.part.messageID \in S.userMessageIds
  THEN [S EXCEPT !.br = "skipUser"]
  ELSE applyPart(S, e)

\* terminal as it would be without the reset of pendingSessionIdRef
terminal_KeepPending(S) ==
  [S EXCEPT !.messages = IF S.lastMessageId # NULL
                         THEN updateMessage(@, S.lastMessageId,
                                            [status |-> "complete"])
                         ELSE @,
            !.lastMessageId = NULL,
            !.isLoading = FALSE,
            !.br = "terminal"]

\* terminal as it would be without setLoading(false)
terminal_KeepsLoading(S) ==
  [S EXCEPT !.messages = IF S.lastMessageId # NULL
                         THEN updateMessage(@, S.lastMessageId,
                                            [status |-> "complete"])
                         ELSE @,
            !.lastMessageId = NULL,
            !.pendingSessionId = NULL,
            !.br = "terminal"]

\* the cleanup shared by idle, run.* and session.error
terminal(S) ==
  [S EXCEPT !.messages = IF S.lastMessageId # NULL
                         THEN updateMessage(@, S.lastMessageId,
                                            [status |-> "complete"])
                         ELSE @,
            !.lastMessageId = NULL,
            !.pendingSessionId = NULL,
            !.isLoading = FALSE,
            !.br = "terminal"]

\* case "session.status"
onSessionStatus(S, e) ==
  CASE e.status.type = "busy" -> [S EXCEPT !.isLoading = TRUE, !.br = "busy"]
    [] e.status.type = "idle" -> terminal(S)
    [] OTHER -> S

\* onSessionError as it would be if the partial assistant message were
\* deleted rather than completed
onSessionError_DropsPartial(S, e) ==
  LET Other(m) == m.id # S.lastMessageId
  IN [terminal([S EXCEPT !.error = IF e.message # NULL THEN e.message
                                   ELSE IF e.error # NULL THEN e.error
                                   ELSE "Session error occurred",
                         !.messages = SelectSeq(@, Other)])
      EXCEPT !.br = "sessionError"]

\* case "session.error": props.message || props.error || "Session error..."
onSessionError(S, e) ==
  [terminal([S EXCEPT !.error = IF e.message # NULL THEN e.message
                                ELSE IF e.error # NULL THEN e.error
                                ELSE "Session error occurred"])
   EXCEPT !.br = "sessionError"]

\* Date.now() where a session event or list entry carries no time: a
\* reading later than every stamp the server hands out.
WallNow == 9

\* a Session of the directory
Session(id, title, updatedAt) ==
  [id |-> id, title |-> title, updatedAt |-> updatedAt]

HasSession(list, id) == \E i \in 1..Len(list) : list[i].id = id

IdsOf(list) == {list[i].id : i \in 1..Len(list)}

\* the Session built from an event's info or a list entry; a time that is
\* absent reads 0 here, which `||` treats like undefined
sessionOf(info, defaultTitle) ==
  Session(info.id,
          IF info.title # NULL THEN info.title ELSE defaultTitle,
          IF info.updated # 0 THEN info.updated ELSE WallNow)

\* properties.info of a session event that carries none
NoInfo == [id |-> NULL, title |-> NULL, updated |-> 0]

\* case "session.created"
onSessionCreated(S, e) ==
  IF e.info = NoInfo \/ HasSession(S.sessions, e.info.id) THEN S
  ELSE [S EXCEPT !.sessions = <<sessionOf(e.info, "New Chat")>> \o @,
                 !.br = "sessionAdded"]

\* onSessionUpdated as it would be if the entry were added without looking
\* for the id
onSessionUpdated_AlwaysAdds(S, e) ==
  IF e.info = NoInfo THEN S
  ELSE [S EXCEPT !.sessions = <<sessionOf(e.info, "New Chat")>> \o @,
                 !.br = "sessionAdded"]

\* case "session.updated"
onSessionUpdated(S, e) ==
  IF e.info = NoInfo THEN S
  ELSE
    LET info == e.info
        updatedSessions ==
          [i \in 1..Len(S.sessions) |->
             IF S.sessions[i].id = info.id
             THEN sessionOf([info EXCEPT !.title =
                               IF @ # NULL THEN @ ELSE S.sessions[i].title],
                            "New Chat")
             ELSE S.sessions[i]]
    IN IF ~HasSession(S.sessions, info.id)
       THEN [S EXCEPT !.sessions = <<sessionOf(info, "New Chat")>> \o
                                     updatedSessions,
                      !.br = "sessionAdded"]
       ELSE [S EXCEPT !.sessions = updatedSessions, !.br = "sessionUpdated"]

\* an event whose JSON has no properties member
Unpropertied(t) == [type |-> t]

HasProperties(e) == DOMAIN e # {"type"}

\* the cases that read a member of event.properties: on an event without
\* properties that read raises a TypeError, before any state is written
handleEventThrows(e) ==
  /\ ~HasProperties(e)
  /\ e.type \in {"permission.request", "message.created", "message.updated",
                  "message.part.updated", "session.status", "session.error",
                  "session.created", "session.updated"}

\* handleEvent as it would be if the default case ended the turn
handleEvent_DefaultEnds(S, e) ==
  CASE e.type = "permission.request" -> onPermissionRequest(S, e)
    [] e.type \in {"message.created", "message.updated"} -> onMessage(S, e)
    [] e.type = "message.part.updated" -> onPartUpdated(S, e)
    [] e.type = "session.status" -> onSessionStatus(S, e)
    [] e.type \in {"session.idle", "run.completed", "run.failed"} ->
         terminal(S)
    [] e.type = "session.error" -> onSessionError(S, e)
    [] e.type = "session.created" -> onSessionCreated(S, e)
    [] e.type = "session.updated" -> onSessionUpdated(S, e)
    [] OTHER -> terminal(S)

\* the switch over event.type
handleEvent(S, e) ==
  CASE e.type = "permission.request" -> onPermissionRequest(S, e)
    [] e.type \in {"message.created", "message.updated"} -> onMessage(S, e)
    [] e.type = "message.part.updated" -> onPartUpdated(S, e)
    [] e.type = "session.status" -> onSessionStatus(S, e)
    [] e.type \in {"session.idle", "run.completed", "run.failed"} ->
         terminal(S)
    [] e.type = "session.error" -> onSessionError(S, e)
    [] e.type = "session.created" -> onSessionCreated(S, e)
    [] e.type = "session.updated" -> onSessionUpdated(S, e)
    [] OTHER -> S

\* ------------------------------------------------------ inbound events
NoToolState ==
  [status |-> NULL, input |-> NULL, output |-> NULL, error |-> NULL]

MessageEvent(t, sid, id) ==
  [type |-> t, sessionID |-> sid, info |-> [id |-> id, role |-> ServerRole(id)]]

\* a message.part.updated for a text-like part (text, reasoning, step-start)
TextPartEvent(sid, mid, pid, ty, tx) ==
  [type |-> "message.part.updated", sessionID |-> sid,
   part |-> [id |-> pid, messageID |-> mid, type |-> ty, text |-> tx,
             tool |-> NULL, state |-> NoToolState]]

\* a message.part.updated for a tool part in state st
ToolPartEvent(sid, mid, pid, st) ==
  [type |-> "message.part.updated", sessionID |-> sid,
   part |-> [id |-> pid, messageID |-> mid, type |-> "tool", text |-> NULL,
             tool |-> "bash", state |-> st]]

ToolState(status, output) ==
  [status |-> status, input |-> "in", output |-> output, error |-> NULL]

ToolStates ==
  {ToolState("running", NULL), ToolState("completed", "[1]"),
   ToolState("completed", "ok"), ToolState("error", NULL)}

\* every state a tool part goes through
ToolLifecycle == ToolStates \cup {ToolState("pending", NULL)}

\* The events the stream delivers in the tool runs (SpecTool).
ToolEvents ==
  {MessageEvent("message.updated", "A", "m1"),
   TextPartEvent("A", "m1", "p1", "text", "a")}
  \cup {ToolPartEvent("A", "m1", pid, st) :
          pid \in PartIds, st \in ToolLifecycle}

IdleEvent(sid) ==
  [type |-> "session.status", sessionID |-> sid, status |-> [type |-> "idle"]]

BusyEvent(sid) ==
  [type |-> "session.status", sessionID |-> sid, status |-> [type |-> "busy"]]

BareEvent(t, sid) == [type |-> t, sessionID |-> sid]

ErrorEvent(sid, message, err) ==
  [type |-> "session.error", sessionID |-> sid, message |-> message,
   error |-> err]

\* The events the properties quantify over: what the server may send.
MessageEvents ==
  {MessageEvent(t, sid, id) :
     t \in {"message.created", "message.updated"}, sid \in ServerSessionIds,
     id \in ServerMsgIds}

PartEvents ==
  {TextPartEvent(sid, mid, pid, "text", tx) :
     sid \in ServerSessionIds, mid \in ServerMsgIds \cup {NULL},
     pid \in PartIds, tx \in Texts \cup {NULL}}
  \cup {TextPartEvent(sid, mid, pid, ty, tx) :
          sid \in ServerSessionIds, mid \in ServerMsgIds \cup {NULL},
          pid \in PartIds, ty \in {"reasoning", "step-start"}, tx \in Texts}
  \cup {ToolPartEvent(sid, mid, pid, st) :
          sid \in ServerSessionIds, mid \in ServerMsgIds \cup {NULL},
          pid \in PartIds, st \in ToolStates}

TerminalEvents ==
  {IdleEvent(sid) : sid \in ServerSessionIds}
  \cup {BareEvent(t, sid) :
          t \in {"session.idle", "run.completed", "run.failed"},
          sid \in ServerSessionIds}

Events == MessageEvents \cup PartEvents \cup TerminalEvents

SessionInfoEvent(t, info) == [type |-> t, sessionID |-> info.id, info |-> info]

SessionInfoEvents ==
  {SessionInfoEvent(t, [id |-> id, title |-> title, updated |-> updated]) :
     t \in {"session.created", "session.updated"}, id \in SessionIds,
     title \in {NULL, "T2"}, updated \in {0, 3}}
  \cup {SessionInfoEvent(t, NoInfo) : t \in {"session.created", "session.updated"}}

\* The events the stream delivers in the directory runs (SpecDirectory).
DirectoryEvents ==
  {SessionInfoEvent("session.created",
                    [id |-> NewSessionId(1), title |-> NULL, updated |-> 0]),
   SessionInfoEvent("session.updated",
                    [id |-> "A", title |-> "T2", updated |-> 3])}

\* server.heartbeat, server.connected and a type the switch has no case for
IgnoredEvents ==
  {BareEvent(t, sid) :
     t \in {"server.heartbeat", "server.connected", "tui.toast.show"},
     sid \in ServerSessionIds \cup {NULL}}

ErrorEvents ==
  {ErrorEvent(sid, message, err) :
     sid \in ServerSessionIds, message \in {NULL, "boom"},
     err \in {NULL, "failed"}}

\* The events that end a turn, for the session the turns run in.
TurnEndEvents ==
  {IdleEvent("A"), BareEvent("session.idle", "A"),
   BareEvent("run.completed", "A"), BareEvent("run.failed", "A"),
   ErrorEvent("A", "boom", NULL)}

\* The events the stream delivers in the turn runs with fairness (SpecLive).
LiveEvents ==
  {TextPartEvent("A", "m1", "p1", "text", "a"), BusyEvent("A"),
   MessageEvent("message.updated", "A", "m2")}
  \cup TurnEndEvents

\* The events the stream delivers in the turn-controller runs (Spec).
TurnEvents ==
  {MessageEvent("message.updated", "A", "m1"),
   TextPartEvent("A", "m1", "p1", "text", "a"),
   TextPartEvent("A", "m1", "p2", "text", "b"),
   BareEvent("session.idle", "A"), BusyEvent("A")}

\* The events the stream delivers in the reconciliation runs (SpecEngine).
EngineEvents ==
  {MessageEvent("message.created", "A", "m1"),
   MessageEvent("message.updated", "A", "s1"),
   TextPartEvent("A", "m1", "p1", "text", "a"),
   TextPartEvent("A", "m1", "p2", "text", "b"),
   TextPartEvent("A", "m1", "p1", "reasoning", "a"),
   TextPartEvent("A", "s1", "p1", "text", "a"),
   IdleEvent("A")}

\* a permission.request: id and type are what the dialog shows
PermissionEvent(sid, id, ty) ==
  [type |-> "permission.request", sessionID |-> sid, id |-> id, ptype |-> ty]

\* The events the stream delivers in the permission runs (SpecPermission).
PermissionEvents ==
  {PermissionEvent("A", id, ty) :
     id \in {"perm1", "perm2"}, ty \in {"file_edit", "shell_command"}}

\* The events the stream delivers in the session runs (SpecSession).
SessionEvents ==
  {MessageEvent("message.updated", "A", "m1"), BareEvent("run.completed", "A")}

\* ------------------------------------------------- loadSessionMessages
\* p.id || `${info.id}-${kind}${index}` (index counts from 0)
rawPartId(p, infoId, kind, i) ==
  IF p.id # NULL THEN p.id ELSE infoId \o "-" \o kind \o ToString(i - 1)

\* rawParts.map((p, index) => ...)
mapRawPart(p, infoId, i) ==
  CASE p.type = "text" ->
         Part("text", rawPartId(p, infoId, "text-", i), textOf(p))
    [] p.type = "tool" ->
         LET toolState == p.state
             isCompleted == toolState.status = "completed"
             isError == toolState.status = "error"
         IN [type |-> IF isCompleted \/ isError THEN "tool_result"
                      ELSE "tool_use",
             id |-> rawPartId(p, infoId, "tool-", i),
             toolName |-> IF p.tool # NULL THEN p.tool ELSE "unknown",
             content |-> IF toolState.output # NULL THEN toolState.output
                         ELSE Pretty(IF toolState.input # NULL
                                     THEN toolState.input ELSE "{}"),
             toolInput |-> toolState.input,
             toolOutput |-> toolState.output,
             toolError |-> toolState.error,
             status |-> IF isError THEN "error"
                        ELSE IF isCompleted THEN "completed"
                        ELSE IF toolState.status # NULL THEN toolState.status
                        ELSE "completed"]
    [] OTHER ->
         [Part(IF p.type # NULL THEN p.type ELSE "text",
               rawPartId(p, infoId, "", i), textOf(p))
          EXCEPT !.toolName = p.tool]

\* one item of the response to a Message of the Store
mapHistoryItem(item) ==
  LET info == item.info
      mapped == [i \in 1..Len(item.parts) |->
                   mapRawPart(item.parts[i], info.id, i)]
      parts == IF Len(mapped) = 0 /\ info.content # NULL
               THEN <<Part("text", info.id \o "-content", info.content)>>
               ELSE mapped
  IN [id |-> info.id,
      role |-> IF info.role = "user" THEN "user" ELSE "assistant",
      content |-> TextContent(parts),
      status |-> "complete",
      parts |-> parts]

mapHistory(data) == [i \in 1..Len(data) |-> mapHistoryItem(data[i])]

UserIdsOf(msgs) ==
  {msgs[i].id : i \in {j \in 1..Len(msgs) : msgs[j].role = "user"}}

\* a part as the history endpoint returns it
RawPart(type, id, text) ==
  [type |-> type, id |-> id, text |-> text, tool |-> NULL,
   state |-> NoToolState]

RawItem(id, content, parts) ==
  [info |-> [id |-> id, role |-> ServerRole(id), content |-> content],
   parts |-> parts]

\* The responses of the history endpoint the model draws from.
Histories ==
  { <<>>,
    <<RawItem("s1", NULL, <<RawPart("text", "p1", "a")>>),
      RawItem("m1", NULL, <<RawPart("reasoning", "p1", "a"),
                            RawPart("text", "p2", "b")>>)>>,
    <<RawItem("s1", "a", <<>>),
      RawItem("m2", NULL,
              <<RawPart("text", NULL, "a"),
                [RawPart("tool", "p2", NULL) EXCEPT
                   !.tool = "bash",
                   !.state = [status |-> "completed", input |-> "in",
                              output |-> "ok", error |-> NULL]]>>)>> }

\* ------------------------------------------------------------- actions
Op(op, mk, br) == [op |-> op, mk |-> mk, br |-> br]

\* the handler may add a message or a part only within the bounds
WithinBounds(old, new) ==
  /\ Len(new) > Len(old) => Len(new) <= MaxMsgs
  /\ \A i \in 1..Len(old) :
       Len(new[i].parts) > Len(old[i].parts) => Len(new[i].parts) <= MaxParts

Init ==
  /\ client = FALSE
  /\ messages = <<>>
  /\ sessions = <<>>
  /\ isLoading = FALSE
  /\ pendingPermission = NoPermission
  /\ error = NULL
  /\ currentSessionId = NULL
  /\ lastMessageId = NULL
  /\ userMessageIds = {}
  /\ pendingSessionId = NULL
  /\ clock = 0
  /\ created = 0
  /\ loads = [sid \in SessionIds |-> 0]
  /\ prompts = [k \in {"send", "regen"} |-> <<>>]
  /\ creating = <<>>
  /\ listing = 0
  /\ calls = [abort |-> 0, delete |-> <<>>, permission |-> <<>>]
  /\ conn = [stream |-> "none", logged |-> 0]
  /\ config = defaultConfig
  /\ lastOp = Op("init", "none", "none")

\* eventSource.onmessage -> handleEvent(data)
HandleEvent(e) ==
  LET R == handleEvent(View, e)
  IN /\ client /\ conn.stream = "open"
     /\ WithinBounds(messages, R.messages)
     /\ messages' = R.messages
     /\ sessions' = R.sessions
     /\ isLoading' = R.isLoading
     /\ pendingPermission' = R.pendingPermission
     /\ error' = R.error
     /\ lastMessageId' = R.lastMessageId
     /\ userMessageIds' = R.userMessageIds
     /\ pendingSessionId' = R.pendingSessionId
     /\ lastOp' = Op("event", R.mk, R.br)
     /\ UNCHANGED <<client, currentSessionId, clock, created, loads, prompts,
                    creating, listing, calls, conn, config>>

\* connect / the mount effect: the client is made, the stream subscribed
\* and loadSessions started.
Connect ==
  /\ ~client
  /\ client' = TRUE
  /\ conn' = [conn EXCEPT !.stream = "open"]
  /\ listing' = listing + 1
  /\ lastOp' = Op("connect", "none", "none")
  /\ UNCHANGED <<messages, sessions, isLoading, pendingPermission, error,
                 currentSessionId, lastMessageId, userMessageIds,
                 pendingSessionId, clock, created, loads, prompts, creating,
                 calls, config>>

\* The effect on [currentSessionId]: it runs when the id changed, and
\* runs loadSessionMessages up to its await (or empties the Store).
\* startsLoad: the fetch is issued.
startsLoad(old, new, pending) ==
  new # old /\ new # NULL /\ client /\ pending # new

sessionEffect(old, new, pending) ==
  /\ messages' = IF new # old /\ new = NULL THEN <<>> ELSE messages
  /\ isLoading' = IF startsLoad(old, new, pending) THEN TRUE ELSE isLoading
  /\ loads' = IF startsLoad(old, new, pending)
              THEN [loads EXCEPT ![new] = @ + 1] ELSE loads

\* switchSession as it would be if the set of user message ids were kept
switchSession_KeepsUserIds(sessionId) ==
  /\ startsLoad(currentSessionId, sessionId, NULL)
       => loads[sessionId] < MaxFlight
  /\ pendingSessionId' = NULL
  /\ lastMessageId' = NULL
  /\ currentSessionId' = sessionId
  /\ sessionEffect(currentSessionId, sessionId, NULL)
  /\ lastOp' = Op("switchSession", "none",
                  IF startsLoad(currentSessionId, sessionId, NULL)
                  THEN "reload" ELSE "noReload")
  /\ UNCHANGED <<client, sessions, pendingPermission, error, clock, created,
                 prompts, creating, listing, calls, conn, config,
                 userMessageIds>>

\* switchSession(sessionId)
switchSession(sessionId) ==
  /\ startsLoad(currentSessionId, sessionId, NULL)
       => loads[sessionId] < MaxFlight
  /\ pendingSessionId' = NULL
  /\ userMessageIds' = {}
  /\ lastMessageId' = NULL
  /\ currentSessionId' = sessionId
  /\ sessionEffect(currentSessionId, sessionId, NULL)
  /\ lastOp' = Op("switchSession", "none",
                  IF startsLoad(currentSessionId, sessionId, NULL)
                  THEN "reload" ELSE "noReload")
  /\ UNCHANGED <<client, sessions, pendingPermission, error, clock, created,
                 prompts, creating, listing, calls, conn, config>>

\* loadSessionMessages after its await: the response, or a failure
LoadReturn(sessionId, ok, data) ==
  /\ loads[sessionId] > 0
  /\ loads' = [loads EXCEPT ![sessionId] = @ - 1]
  /\ messages' = IF ok THEN mapHistory(data) ELSE messages
  /\ userMessageIds' = IF ok THEN userMessageIds \cup UserIdsOf(mapHistory(data))
                       ELSE userMessageIds
  /\ isLoading' = FALSE
  /\ lastOp' = Op("loadReturn", "none", IF ok THEN "replaced" ELSE "failed")
  /\ UNCHANGED <<client, sessions, pendingPermission, error, currentSessionId,
                 lastMessageId, pendingSessionId, clock, created, prompts,
                 creating, listing, calls, conn, config>>

\* UserMessage as it would be if the optimistic message awaited the server
UserMessage_Pending(id, text) ==
  [id |-> id, role |-> "user", content |-> text, status |-> "pending",
   parts |-> <<Part("text", id \o "-text", text)>>]

\* the optimistic user message of sendMessage
UserMessage(id, text) ==
  [id |-> id, role |-> "user", content |-> text, status |-> "complete",
   parts |-> <<Part("text", id \o "-text", text)>>]

\* `user-${Date.now()}`
userMessageIdAt(t) == "user-" \o ToString(t)

\* Date.now(): the millisecond of the previous reading, or a later one
DateNow == {t \in {clock, clock + 1} : t > 0}

\* the request of promptAsync: the session, the text of its one part and
\* the model.  config is the one of the render the
\* callback was made in; it does not change while a session.create is
\* awaited in the runs here.
Prompt(sessionId, text) ==
  [id |-> sessionId, text |-> text, model |-> parseModel(config)]

\* sendMessage from setLoading(true) to the await of promptAsync
sendBody(sessionId, text) ==
  /\ Len(messages) < MaxMsgs
  /\ Len(prompts["send"]) < MaxFlight
  /\ isLoading' = TRUE
  /\ \E t \in DateNow :
       messages' = addMessage(messages, UserMessage(userMessageIdAt(t), text))
  /\ clock' = clock + 1
  /\ prompts' = [prompts EXCEPT !["send"] = Append(@, Prompt(sessionId, text))]

\* sendMessage(text) up to its first await, in a run of at most `limit`
\* sends
sendWithin(limit, text) ==
  /\ client
  /\ clock + Len(SelectSeq(creating, LAMBDA t : t # NULL)) < limit
  /\ IF currentSessionId # NULL
     THEN /\ sendBody(currentSessionId, text)
          /\ lastOp' = Op("sendMessage", "none", "dispatched")
          /\ UNCHANGED <<creating>>
     ELSE /\ Len(creating) < MaxFlight
          /\ created + Len(creating) < MaxCreates
          /\ creating' = Append(creating, text)
          /\ lastOp' = Op("sendMessage", "none", "awaitCreate")
          /\ UNCHANGED <<messages, isLoading, clock, prompts>>
  /\ UNCHANGED <<client, sessions, pendingPermission, error, currentSessionId,
                 lastMessageId, userMessageIds, pendingSessionId, created,
                 loads, listing, calls, conn, config>>

sendMessage(text) == sendWithin(MaxSends, text)

\* createSession() called on its own, up to its await
createSession ==
  /\ client
  /\ Len(creating) < MaxFlight
  /\ created + Len(creating) < MaxCreates
  /\ creating' = Append(creating, NULL)
  /\ lastOp' = Op("createSession", "none", "awaitCreate")
  /\ UNCHANGED <<client, messages, sessions, isLoading, pendingPermission,
                 error, currentSessionId, lastMessageId, userMessageIds,
                 pendingSessionId, clock, created, loads, prompts, listing,
                 calls, conn, config>>

RemoveAt(seq, i) == SubSeq(seq, 1, i - 1) \o SubSeq(seq, i + 1, Len(seq))

\* createSession after its await and, when sendMessage awaited it, the
\* rest of sendMessage.  The effect on the new currentSessionId finds it
\* pending and returns.
CreateReturn(i, ok) ==
  /\ i \in 1..Len(creating)
  /\ creating' = RemoveAt(creating, i)
  /\ IF ok
     THEN /\ created' = created + 1
          /\ pendingSessionId' = NewSessionId(created + 1)
          /\ userMessageIds' = {}
          /\ currentSessionId' = NewSessionId(created + 1)
          /\ IF creating[i] # NULL
             THEN /\ sendBody(NewSessionId(created + 1), creating[i])
                  /\ lastOp' = Op("createReturn", "created", "dispatched")
             ELSE /\ lastOp' = Op("createReturn", "created", "none")
                  /\ UNCHANGED <<messages, isLoading, clock, prompts>>
     ELSE /\ lastOp' = Op("createReturn", "none", "threw")
          /\ UNCHANGED <<created, pendingSessionId, userMessageIds,
                         currentSessionId, messages, isLoading, clock,
                         prompts>>
  /\ UNCHANGED <<client, sessions, pendingPermission, error, lastMessageId,
                 loads, listing, calls, conn, config>>

\* the message of the Error a failed request throws
RequestError == "Failed to fetch"

\* PromptReturn as it would be if a failed dispatch took the optimistic
\* message back and left loading set
PromptReturn_RollsBack(kind, ok) ==
  /\ Len(prompts[kind]) > 0
  /\ prompts' = [prompts EXCEPT ![kind] = Tail(@)]
  /\ error' = IF ok THEN error ELSE RequestError
  /\ messages' = IF ok \/ Len(messages) = 0 THEN messages
                 ELSE SubSeq(messages, 1, Len(messages) - 1)
  /\ lastOp' = Op("promptReturn", "none", IF ok THEN "ok" ELSE "failed")
  /\ UNCHANGED <<client, isLoading, sessions, pendingPermission,
                 currentSessionId, lastMessageId, userMessageIds,
                 pendingSessionId, clock, created, loads, creating, listing,
                 calls, conn, config>>

\* sendMessage / regenerateLastMessage after the await of promptAsync
PromptReturn(kind, ok) ==
  /\ Len(prompts[kind]) > 0
  /\ prompts' = [prompts EXCEPT ![kind] = Tail(@)]
  /\ error' = IF ok THEN error ELSE RequestError
  /\ isLoading' = IF ok THEN isLoading ELSE FALSE
  /\ lastOp' = Op("promptReturn", "none", IF ok THEN "ok" ELSE "failed")
  /\ UNCHANGED <<client, messages, sessions, pendingPermission,
                 currentSessionId, lastMessageId, userMessageIds,
                 pendingSessionId, clock, created, loads, creating, listing,
                 calls, conn, config>>

\* lastUserIndex as it would be if the last message were taken for the
\* user's
lastUserIndex_Last(msgs) == Len(msgs)

\* [...messages].reverse().findIndex(m => m.role === "user"), as the index
\* in messages; 0 when there is no user message
lastUserIndex(msgs) ==
  IF \E i \in 1..Len(msgs) : msgs[i].role = "user"
  THEN CHOOSE i \in 1..Len(msgs) :
         /\ msgs[i].role = "user"
         /\ \A j \in (i + 1)..Len(msgs) : msgs[j].role # "user"
  ELSE 0

\* messages.slice(0, actualIndex + 1) as it would be with slice(0, actualIndex)
messagesToKeep_DropsUser(msgs) == SubSeq(msgs, 1, lastUserIndex(msgs) - 1)

\* messagesToKeep = messages.slice(0, actualIndex + 1)
messagesToKeep(msgs) == SubSeq(msgs, 1, lastUserIndex(msgs))

\* regenerateLastMessage() up to the await of promptAsync
regenerateLastMessage ==
  /\ IF ~client \/ currentSessionId = NULL
     THEN /\ lastOp' = Op("regenerate", "none", "notConnected")
          /\ UNCHANGED <<messages, isLoading, prompts>>
     ELSE IF lastUserIndex(messages) = 0
     THEN /\ lastOp' = Op("regenerate", "none", "threw")
          /\ UNCHANGED <<messages, isLoading, prompts>>
     ELSE /\ Len(prompts["regen"]) < MaxFlight
          /\ messages' = messagesToKeep(messages)
          /\ isLoading' = TRUE
          /\ prompts' = [prompts EXCEPT !["regen"] =
                           Append(@, Prompt(currentSessionId,
                                            messages[lastUserIndex(messages)]
                                              .content))]
          /\ lastOp' = Op("regenerate", "none", "dispatched")
  /\ UNCHANGED <<client, sessions, pendingPermission, error, currentSessionId,
                 lastMessageId, userMessageIds, pendingSessionId, clock,
                 created, loads, creating, listing, calls, conn, config>>

\* ------------------------------------------------------- loadSessions
RECURSIVE InsertByUpdated(_, _)
\* insert s after every entry that is at least as recent (a stable sort)
InsertByUpdated(sorted, s) ==
  IF Len(sorted) = 0 THEN <<s>>
  ELSE IF sorted[1].updatedAt >= s.updatedAt
  THEN <<sorted[1]>> \o InsertByUpdated(Tail(sorted), s)
  ELSE <<s>> \o sorted

RECURSIVE sortByUpdated(_)
\* list.sort((a, b) => b.updatedAt - a.updatedAt): in place, stable
sortByUpdated(list) ==
  IF Len(list) = 0 THEN <<>>
  ELSE InsertByUpdated(sortByUpdated(SubSeq(list, 1, Len(list) - 1)),
                       list[Len(list)])

mapSessionList(data) ==
  [i \in 1..Len(data) |-> sessionOf(data[i], "Untitled Session")]

\* The responses of session.list the model draws from.
ServerLists ==
  { <<>>,
    <<[id |-> "A", title |-> "T", updated |-> 1],
      [id |-> "B", title |-> NULL, updated |-> 2]>> }

\* loadSessions after its await.  The array handed to setSessions is the
\* one sorted in place to pick the most recent session.
ListReturn(ok, data) ==
  LET list == mapSessionList(data)
      selects == ok /\ Len(list) > 0
      mostRecent == sortByUpdated(list)[1]
      new == IF selects THEN mostRecent.id ELSE currentSessionId
  IN /\ listing > 0
     /\ listing' = listing - 1
     /\ startsLoad(currentSessionId, new, pendingSessionId)
          => loads[new] < MaxFlight
     /\ sessions' = IF ~ok THEN sessions
                    ELSE IF selects THEN sortByUpdated(list) ELSE list
     /\ currentSessionId' = new
     /\ sessionEffect(currentSessionId, new, pendingSessionId)
     /\ lastOp' = Op("listReturn", "none",
                     IF ~ok THEN "failed"
                     ELSE IF startsLoad(currentSessionId, new, pendingSessionId)
                     THEN "reload" ELSE "noReload")
     /\ UNCHANGED <<client, pendingPermission, error, lastMessageId,
                    userMessageIds, pendingSessionId, clock, created, prompts,
                    creating, calls, conn, config>>

\* ------------------------------------------------------------ the stream
\* The frames of the stream (event.data) that are JSON, with the value
\* JSON.parse gives for each.
StreamFrames ==
  << <<"{\"type\":\"message.updated\",\"properties\":{\"info\":{\"id\":\"m1\"}}}",
       MessageEvent("message.updated", "A", "m1")>>,
     <<"{\"type\":\"message.part.updated\",\"properties\":{\"part\":{\"id\":\"p1\"}}}",
       TextPartEvent("A", "m1", "p1", "text", "a")>>,
     <<"{\"type\":\"session.error\",\"properties\":{\"message\":\"boom\"}}",
       ErrorEvent("A", "boom", NULL)>>,
     <<"{\"type\":\"session.idle\",\"properties\":{\"sessionID\":\"A\"}}",
       BareEvent("session.idle", "A")>>,
     <<"{\"type\":\"server.heartbeat\",\"properties\":{}}",
       BareEvent("server.heartbeat", NULL)>>,
     <<"{\"type\":\"session.error\"}", Unpropertied("session.error")>> >>

\* frames JSON.parse throws on: an empty frame, a frame cut short
BadFrames == {"", "{\"type\":\"session.idle\""}

Frames == {StreamFrames[i][1] : i \in 1..Len(StreamFrames)} \cup BadFrames

\* JSON.parse(event.data) returns
IsJsonFrame(frame) == \E i \in 1..Len(StreamFrames) : StreamFrames[i][1] = frame

\* JSON.parse(event.data)
ParseFrame(frame) ==
  StreamFrames[CHOOSE i \in 1..Len(StreamFrames) : StreamFrames[i][1] = frame][2]

\* the catch of onmessage as it would be if a frame that does not parse
\* ended the subscription
onBadFrame_Closes(c) == [c EXCEPT !.stream = "lost", !.logged = @ + 1]

\* the catch of onmessage: console.error("Failed to parse event:", err)
onBadFrame(c) == [c EXCEPT !.logged = @ + 1]

\* eventSource.onmessage: JSON.parse, then handleEvent, inside try/catch
OnMessage(frame) ==
  IF IsJsonFrame(frame) /\ ~handleEventThrows(ParseFrame(frame))
  THEN HandleEvent(ParseFrame(frame))
  ELSE /\ client /\ conn.stream = "open"
       /\ conn.logged < MaxLogged
       /\ conn' = onBadFrame(conn)
       /\ lastOp' = Op("frame", "none",
                       IF IsJsonFrame(frame) THEN "threw" ELSE "discarded")
       /\ UNCHANGED <<client, messages, sessions, isLoading, pendingPermission,
                      error, currentSessionId, lastMessageId, userMessageIds,
                      pendingSessionId, clock, created, loads, prompts,
                      creating, listing, calls, config>>

\* eventSource.onerror: the connection dropped; the handler logs it
StreamError ==
  /\ client /\ conn.stream = "open"
  /\ conn.logged < MaxLogged
  /\ conn' = [stream |-> "lost", logged |-> conn.logged + 1]
  /\ lastOp' = Op("streamError", "none", "none")
  /\ UNCHANGED <<client, messages, sessions, isLoading, pendingPermission,
                 error, currentSessionId, lastMessageId, userMessageIds,
                 pendingSessionId, clock, created, loads, prompts, creating,
                 listing, calls, config>>

\* The EventSource connects again by itself.  subscribeToEvents sets
\* onmessage and onerror only, so nothing of the provider runs.
StreamReopen ==
  /\ conn.stream = "lost"
  /\ conn' = [conn EXCEPT !.stream = "open"]
  /\ lastOp' = Op("streamOpen", "none", "none")
  /\ UNCHANGED <<client, messages, sessions, isLoading, pendingPermission,
                 error, currentSessionId, lastMessageId, userMessageIds,
                 pendingSessionId, clock, created, loads, prompts, creating,
                 listing, calls, config>>

\* abortSession() up to its await
abortSession ==
  /\ IF ~client \/ currentSessionId = NULL
     THEN /\ lastOp' = Op("abort", "none", "noSession")
          /\ UNCHANGED calls
     ELSE /\ calls.abort < MaxFlight
          /\ calls' = [calls EXCEPT !.abort = @ + 1]
          /\ lastOp' = Op("abort", "none", "requested")
  /\ UNCHANGED <<client, messages, sessions, isLoading, pendingPermission,
                 error, currentSessionId, lastMessageId, userMessageIds,
                 pendingSessionId, clock, created, loads, prompts, creating,
                 listing, conn, config>>

\* AbortReturn as it would be if the abort ended the turn locally
AbortReturn_ClearsLoading(ok) ==
  /\ calls.abort > 0
  /\ calls' = [calls EXCEPT !.abort = @ - 1]
  /\ isLoading' = FALSE
  /\ lastOp' = Op("abortReturn", "none", IF ok THEN "ok" ELSE "failed")
  /\ UNCHANGED <<client, messages, sessions, pendingPermission,
                 error, currentSessionId, lastMessageId, userMessageIds,
                 pendingSessionId, clock, created, loads, prompts, creating,
                 listing, conn, config>>

\* abortSession after its await: nothing on success, a log line on failure
AbortReturn(ok) ==
  /\ calls.abort > 0
  /\ calls' = [calls EXCEPT !.abort = @ - 1]
  /\ lastOp' = Op("abortReturn", "none", IF ok THEN "ok" ELSE "failed")
  /\ UNCHANGED <<client, messages, sessions, isLoading, pendingPermission,
                 error, currentSessionId, lastMessageId, userMessageIds,
                 pendingSessionId, clock, created, loads, prompts, creating,
                 listing, conn, config>>

\* ------------------------------------------------------- deleteSession
\* deleteSession(sessionId) up to its await.  The callback compares with
\* the currentSessionId of the render it was made in.
deleteSession(sessionId) ==
  /\ IF ~client
     THEN /\ lastOp' = Op("deleteSession", "none", "notConnected")
          /\ UNCHANGED calls
     ELSE /\ Len(calls.delete) < MaxFlight
          /\ calls' = [calls EXCEPT !.delete =
                         Append(@, [id |-> sessionId,
                                    wasCurrent |-> currentSessionId = sessionId])]
          /\ lastOp' = Op("deleteSession", "none", "requested")
  /\ UNCHANGED <<client, messages, sessions, isLoading, pendingPermission,
                 error, currentSessionId, lastMessageId, userMessageIds,
                 pendingSessionId, clock, created, loads, prompts, creating,
                 listing, conn, config>>

\* existingSessions.filter(s => s.id !== sessionId)
withoutSession(list, id) ==
  LET Other(x) == x.id # id IN SelectSeq(list, Other)

\* deleteSession after its await.  On success the filtered array goes to
\* setSessions and, when the deleted session was the current one, is then
\* sorted in place to pick the most recent one.
DeleteReturn(ok) ==
  /\ Len(calls.delete) > 0
  /\ LET d == Head(calls.delete)
         updatedSessions == withoutSession(sessions, d.id)
         reselects == ok /\ d.wasCurrent
         new == IF ~reselects THEN currentSessionId
                ELSE IF Len(updatedSessions) > 0
                THEN sortByUpdated(updatedSessions)[1].id
                ELSE NULL
     IN /\ calls' = [calls EXCEPT !.delete = Tail(@)]
        /\ startsLoad(currentSessionId, new, pendingSessionId)
             => loads[new] < MaxFlight
        /\ sessions' = IF ~ok THEN sessions
                       ELSE IF reselects /\ Len(updatedSessions) > 0
                       THEN sortByUpdated(updatedSessions)
                       ELSE updatedSessions
        /\ currentSessionId' = new
        /\ messages' = IF new = NULL /\ (reselects \/ new # currentSessionId)
                       THEN <<>> ELSE messages
        /\ isLoading' = IF startsLoad(currentSessionId, new, pendingSessionId)
                        THEN TRUE ELSE isLoading
        /\ loads' = IF startsLoad(currentSessionId, new, pendingSessionId)
                    THEN [loads EXCEPT ![new] = @ + 1] ELSE loads
        /\ lastOp' = Op("deleteReturn", "none",
                        IF ~ok THEN "failed"
                        ELSE IF reselects THEN "reselected" ELSE "removed")
  /\ UNCHANGED <<client, pendingPermission, error, lastMessageId,
                 userMessageIds, pendingSessionId, clock, created, prompts,
                 creating, listing, conn, config>>

\* updateConfig({ selectedModel, selectedProvider }) of the store
updateConfig(model, provider) ==
  /\ config' = [config EXCEPT !.selectedModel = model,
                              !.selectedProvider = provider]
  /\ config' # config
  /\ lastOp' = Op("updateConfig", "none", "none")
  /\ UNCHANGED <<client, messages, sessions, isLoading, pendingPermission,
                 error, currentSessionId, lastMessageId, userMessageIds,
                 pendingSessionId, clock, created, loads, prompts, creating,
                 listing, calls, conn>>

\* ------------------------------------------------- respondToPermission
\* approved ? (remember ? "always" : "once") : "reject"
responseOf(approved, remember) ==
  IF approved THEN (IF remember THEN "always" ELSE "once") ELSE "reject"

\* handlePermissionApprove / handlePermissionDeny of the dialog, with
\* respondToPermission up to its await.  Without a pending request, a
\* client or a current session nothing is awaited and the handler goes
\* straight to setPendingPermission(null).
handlePermission(approved, remember) ==
  /\ IF pendingPermission = NoPermission \/ ~client \/ currentSessionId = NULL
     THEN /\ pendingPermission' = NoPermission
          /\ lastOp' = Op("respond", "none", "notSent")
          /\ UNCHANGED calls
     ELSE /\ Len(calls.permission) < MaxFlight
          /\ calls' = [calls EXCEPT !.permission =
                         Append(@, [id |-> pendingPermission.id,
                                    response |-> responseOf(approved,
                                                            remember)])]
          /\ lastOp' = Op("respond", "none", "requested")
          /\ UNCHANGED pendingPermission
  /\ UNCHANGED <<client, messages, sessions, isLoading, error,
                 currentSessionId, lastMessageId, userMessageIds,
                 pendingSessionId, clock, created, loads, prompts, creating,
                 listing, conn, config>>

\* respondToPermission after its await, and the dialog handler after it:
\* on success respondToPermission calls setPendingPermission(null), on
\* failure it logs; the handler then calls setPendingPermission(null) in
\* both cases.
PermissionReturn(ok) ==
  /\ Len(calls.permission) > 0
  /\ calls' = [calls EXCEPT !.permission = Tail(@)]
  /\ pendingPermission' = NoPermission
  /\ lastOp' = Op("respondReturn", "none", IF ok THEN "ok" ELSE "failed")
  /\ UNCHANGED <<client, messages, sessions, isLoading, error,
                 currentSessionId, lastMessageId, userMessageIds,
                 pendingSessionId, clock, created, loads, prompts, creating,
                 listing, conn, config>>

\* ---------------------------------------------------------- the system
\* The turn controller: connect, the session list, sendMessage with and
\* without a session, regeneration, history loads, and the event stream.
Next ==
  \/ Connect
  \/ \E e \in TurnEvents : HandleEvent(e)
  \/ \E sid \in SessionIds, ok \in BOOLEAN, data \in Histories :
       LoadReturn(sid, ok, data)
  \/ \E text \in Texts : sendMessage(text)
  \/ \E i \in 1..MaxFlight, ok \in BOOLEAN : CreateReturn(i, ok)
  \/ \E kind \in {"send", "regen"}, ok \in BOOLEAN : PromptReturn(kind, ok)
  \/ regenerateLastMessage
  \/ \E ok \in BOOLEAN, data \in ServerLists : ListReturn(ok, data)

Spec == Init /\ [][Next]_vars

\* The reconciliation engine: the event stream over a Store that history
\* loads replace.
NextEngine ==
  \/ Connect
  \/ \E e \in EngineEvents : HandleEvent(e)
  \/ \E sid \in {"A"} : switchSession(sid)
  \/ \E ok \in BOOLEAN, data \in Histories : LoadReturn("A", ok, data)

SpecEngine == Init /\ [][NextEngine]_vars

\* The session directory: creating, listing and switching sessions.
NextSession ==
  \/ Connect
  \/ \E e \in SessionEvents : HandleEvent(e)
  \/ \E sid \in SessionIds : switchSession(sid)
  \/ \E sid \in SessionIds, ok \in BOOLEAN, data \in Histories :
       LoadReturn(sid, ok, data)
  \/ \E text \in Texts : sendMessage(text)
  \/ createSession
  \/ \E i \in 1..MaxFlight, ok \in BOOLEAN : CreateReturn(i, ok)
  \/ \E ok \in BOOLEAN, data \in ServerLists : ListReturn(ok, data)

SpecSession == Init /\ [][NextSession]_vars

\* The stream: frames that parse and frames that do not, a connection that
\* drops and comes back, and a turn that is sent and aborted.
NextStream ==
  \/ Connect
  \/ \E frame \in Frames : OnMessage(frame)
  \/ StreamError
  \/ StreamReopen
  \/ \E ok \in BOOLEAN, data \in ServerLists : ListReturn(ok, data)
  \/ \E sid \in SessionIds, ok \in BOOLEAN, data \in Histories :
       LoadReturn(sid, ok, data)
  \/ \E text \in Texts : sendMessage(text)
  \/ \E i \in 1..MaxFlight, ok \in BOOLEAN : CreateReturn(i, ok)
  \/ \E ok \in BOOLEAN : PromptReturn("send", ok)
  \/ abortSession
  \/ \E ok \in BOOLEAN : AbortReturn(ok)

SpecStream == Init /\ [][NextStream]_vars

\* The turn with fairness.  A dispatch call that is in flight settles (the
\* promise of promptAsync resolves or rejects), and the stream, which stays
\* open here, goes on to deliver an event that ends the turn.
NextLive ==
  \/ Connect
  \/ \E e \in LiveEvents : HandleEvent(e)
  \/ \E text \in Texts : sendMessage(text)
  \/ \E i \in 1..MaxFlight, ok \in BOOLEAN : CreateReturn(i, ok)
  \/ \E kind \in {"send", "regen"}, ok \in BOOLEAN : PromptReturn(kind, ok)
  \/ regenerateLastMessage

SpecLive ==
  /\ Init /\ [][NextLive]_vars
  /\ WF_vars(\E kind \in {"send", "regen"}, ok \in BOOLEAN :
               PromptReturn(kind, ok))
  /\ WF_vars(\E e \in TurnEndEvents : HandleEvent(e))

\* The parts of one assistant message while its tools run.
NextTool ==
  \/ Connect
  \/ \E e \in ToolEvents : HandleEvent(e)

SpecTool == Init /\ [][NextTool]_vars

\* Sends that follow one another in one session.
NextBurst ==
  \/ Connect
  \/ \E ok \in BOOLEAN, data \in ServerLists : ListReturn(ok, data)
  \/ \E sid \in SessionIds, ok \in BOOLEAN, data \in Histories :
       LoadReturn(sid, ok, data)
  \/ \E text \in Texts : sendWithin(MaxBurst, text)
  \/ \E ok \in BOOLEAN : PromptReturn("send", ok)
  \/ \E e \in TurnEndEvents : HandleEvent(e)

SpecBurst == Init /\ [][NextBurst]_vars

\* Dispatch under changing settings.
NextDispatch ==
  \/ Connect
  \/ \E ok \in BOOLEAN, data \in ServerLists : ListReturn(ok, data)
  \/ \E model \in ModelIds, provider \in Providers :
       updateConfig(model, provider)
  \/ \E text \in Texts : sendMessage(text)
  \/ \E kind \in {"send", "regen"}, ok \in BOOLEAN : PromptReturn(kind, ok)
  \/ regenerateLastMessage

SpecDispatch == Init /\ [][NextDispatch]_vars

\* The directory: the session list, session events, deleting and switching.
\* The sessions offered for deletion are the listed ones.
NextDirectory ==
  \/ Connect
  \/ \E e \in DirectoryEvents : HandleEvent(e)
  \/ \E ok \in BOOLEAN, data \in ServerLists : ListReturn(ok, data)
  \/ \E sid \in SessionIds : switchSession(sid)
  \/ \E sid \in SessionIds, ok \in BOOLEAN, data \in Histories :
       LoadReturn(sid, ok, data)
  \/ \E sid \in IdsOf(sessions) : deleteSession(sid)
  \/ \E ok \in BOOLEAN : DeleteReturn(ok)

SpecDirectory == Init /\ [][NextDirectory]_vars

\* Permission requests and the answers given in the dialog.
NextPermission ==
  \/ Connect
  \/ \E ok \in BOOLEAN, data \in ServerLists : ListReturn(ok, data)
  \/ \E sid \in SessionIds, ok \in BOOLEAN, data \in Histories :
       LoadReturn(sid, ok, data)
  \/ \E e \in PermissionEvents : HandleEvent(e)
  \/ \E approved \in BOOLEAN, remember \in BOOLEAN :
       handlePermission(approved, remember)
  \/ \E ok \in BOOLEAN : PermissionReturn(ok)

SpecPermission == Init /\ [][NextPermission]_vars

\* ---------------------------------------------------------- properties
\* What the properties about one event compare: the Store's messages, the
\* active assistant message id and the loading flag.
Observed(S) == <<S.messages, S.lastMessageId, S.isLoading>>

\* the view a second event finds: the first one's result
After(S) == [S EXCEPT !.mk = "none", !.br = "none"]

\* The key of a part within a message: its kind and its id.  A tool is one
\* kind, whether it is held as an invocation or as a result.
KindOf(type) ==
  IF type \in {"tool", "tool_use", "tool_result"} THEN "tool" ELSE type

KeyIndexes(parts, part) ==
  {i \in 1..Len(parts) :
     KindOf(parts[i].type) = KindOf(part.type) /\ parts[i].id = part.id}

\* the part events the handler stores a part for
UpsertEvents == {e \in PartEvents : e.part.type \in {"text", "reasoning", "tool"}}

\* the message an applied part event was stored in
TargetOfEvent(S, e) ==
  IF S.lastMessageId # NULL THEN S.lastMessageId ELSE e.part.messageID

\* what the stored part must show of the event
ShowsEvent(p, part) ==
  CASE part.type \in {"text", "reasoning"} ->
         /\ p.type = part.type
         /\ p.content = IF part.text = NULL THEN "" ELSE part.text
    [] part.state.status = "completed" ->
         p.type = "tool_result" /\ p.status = "completed"
    [] part.state.status = "error" ->
         p.type = "tool_result" /\ p.status = "error" /\ p.content = ""
    [] OTHER -> p.type = "tool_use" /\ p.status = part.state.status

\* C1: handling the same message.part.updated (text, reasoning or tool)
\* twice in succession leaves the messages, the active assistant message
\* id and the loading flag as handling it once does, and the message the
\* part went to holds one part under the event's key, showing the event's
\* content.
PartUpdateIdempotent ==
  \A e \in UpsertEvents :
    LET once == handleEvent(View, e)
        twice == handleEvent(After(once), e)
    IN /\ Observed(twice) = Observed(once)
       /\ \A i \in 1..Len(twice.messages) :
            LET m == twice.messages[i]
            IN (once.br \in {"replace", "append"}
                  /\ m.id = TargetOfEvent(After(once), e))
               => /\ Cardinality(KeyIndexes(m.parts, e.part)) = 1
                  /\ \A k \in KeyIndexes(m.parts, e.part) :
                       ShowsEvent(m.parts[k], e.part)

\* an event found its part already there and wrote it again
PartUpdateIdempotentWitness ==
  /\ lastOp.op = "event" /\ lastOp.br = "replace"
  /\ \E i \in 1..Len(messages) :
       /\ messages[i].id = lastMessageId
       /\ \E k \in 1..Len(messages[i].parts) :
            messages[i].parts[k] = Part("text", "p1", "a")

NoDuplicateParts(msgs) ==
  \A i \in 1..Len(msgs) :
    \A j, k \in 1..Len(msgs[i].parts) :
      (KindOf(msgs[i].parts[j].type) = KindOf(msgs[i].parts[k].type)
         /\ msgs[i].parts[j].id = msgs[i].parts[k].id) => j = k

\* C3: no message ever holds two parts with the same (type, id) pair, and
\* a message.part.updated whose pair a message already holds leaves that
\* message's part sequence with its length, with the pair at its index and
\* with every other part where and as it was.
PartUpsertInPlace ==
  /\ NoDuplicateParts(messages)
  /\ \A e \in UpsertEvents :
       LET R == handleEvent(View, e)
       IN /\ NoDuplicateParts(R.messages)
          /\ Len(R.messages) >= Len(messages)
          /\ \A i \in 1..Len(messages) :
               LET old == messages[i].parts
                   new == R.messages[i].parts
               IN KeyIndexes(old, e.part) # {}
                  => /\ Len(new) = Len(old)
                     /\ KeyIndexes(new, e.part) = KeyIndexes(old, e.part)
                     /\ \A k \in 1..Len(old) :
                          k \notin KeyIndexes(old, e.part) => new[k] = old[k]

\* a part was replaced in a message that holds another part as well
PartUpsertInPlaceWitness ==
  /\ lastOp.op = "event" /\ lastOp.br = "replace"
  /\ \E i \in 1..Len(messages) :
       /\ messages[i].id = lastMessageId
       /\ Len(messages[i].parts) = 2
       /\ messages[i].status = "streaming"

\* C4: a step other than regenerate's truncation or a replacement of the
\* whole Store never takes a message that is complete or in error back to
\* pending or streaming.
StatusOnlyForward ==
  [][lastOp'.op \notin {"regenerate", "loadReturn"}
       => \A i \in 1..Len(messages) :
            (messages[i].status \in {"complete", "error"}
               /\ i <= Len(messages') /\ messages'[i].id = messages[i].id)
            => messages'[i].status \notin {"pending", "streaming"}]_vars

\* the part event names an id the Store has no message for, and no
\* assistant message is active
UnknownAndIdle(e) ==
  /\ e.part.messageID # NULL
  /\ ~HasMessage(messages, e.part.messageID)
  /\ lastMessageId = NULL

\* the event adds one streaming assistant message under its id, makes it
\* the active one, and a part event that follows at once adds none
CreatesExactlyOne(e) ==
  LET R == handleEvent(View, e)
      last == R.messages[Len(R.messages)]
  IN /\ Len(R.messages) = Len(messages) + 1
     /\ SubSeq(R.messages, 1, Len(messages)) = messages
     /\ last.id = e.part.messageID
     /\ last.role = "assistant" /\ last.status = "streaming"
     /\ R.lastMessageId = e.part.messageID
     /\ \A mid \in ServerMsgIds \cup {NULL}, pid \in PartIds :
          LET f == [e EXCEPT !.part.messageID = mid, !.part.id = pid]
          IN Len(handleEvent(After(R), f).messages) = Len(R.messages)

\* C7 (as amended): a message.part.updated for a message id that is
\* neither in the Store nor a known user message id, while no assistant
\* message is active, creates exactly one assistant message (streaming,
\* active), and a second part event right after it creates none.
SingleCreationFromPart ==
  \A e \in PartEvents :
    (UnknownAndIdle(e) /\ e.part.messageID \notin userMessageIds)
      => CreatesExactlyOne(e)

\* C7 (as stated): every message.part.updated for a message id unknown to
\* the Store, while no assistant message is active, creates exactly one
\* assistant message.
SingleCreationAsStated ==
  \A e \in PartEvents : UnknownAndIdle(e) => CreatesExactlyOne(e)

\* a part event created the message it was stored in
SingleCreationFromPartWitness ==
  /\ lastOp = Op("event", "created", "append")
  /\ lastMessageId # NULL
  /\ \E i \in 1..Len(messages) :
       /\ messages[i].id = lastMessageId
       /\ messages[i].role = "assistant"
       /\ Len(messages[i].parts) = 1

\* C8: a message.part.updated whose part.messageID is a known user message
\* id changes nothing: the messages, the active assistant message id, the
\* loading flag and the rest of the Store are as before.
UserPartSuppressed ==
  \A e \in PartEvents :
    e.part.messageID \in userMessageIds => After(handleEvent(View, e)) = View

\* a part of a known user message arrived and was skipped
UserPartSuppressedWitness ==
  /\ lastOp.op = "event" /\ lastOp.br = "skipUser"
  /\ "s1" \in userMessageIds

RECURSIVE JoinText(_)
\* the contents of the text parts, in their order, with a newline between
\* one and the next
JoinText(parts) ==
  IF Len(parts) = 0 THEN ""
  ELSE LET front == SubSeq(parts, 1, Len(parts) - 1)
           p == parts[Len(parts)]
       IN IF p.type # "text" THEN JoinText(front)
          ELSE IF \A i \in 1..Len(front) : front[i].type # "text"
          THEN p.content
          ELSE JoinText(front) \o "\n" \o p.content

ContentJoined(msgs) ==
  \A i \in 1..Len(msgs) : msgs[i].content = JoinText(msgs[i].parts)

\* C2: in every reachable state, and after any message-level or part
\* event handled in it, the content of each message is the newline-join of
\* the contents of its text parts in their order.
ContentIsTextJoin ==
  /\ ContentJoined(messages)
  /\ \A e \in MessageEvents \cup PartEvents :
       ContentJoined(handleEvent(View, e).messages)

\* a second text part arrived and the content was joined again
ContentIsTextJoinWitness ==
  /\ lastOp.op = "event" /\ lastOp.br = "append"
  /\ \E i \in 1..Len(messages) :
       /\ Len(messages[i].parts) = 2
       /\ messages[i].parts[1].type = "text"
       /\ messages[i].parts[2].type = "text"
       /\ messages[i].content = "a\nb"

\* C5: after session.status idle, session.idle, run.completed or
\* run.failed, handled in any state, every message under the id that was
\* active is complete, no message was added or removed, and the active
\* assistant message id and the pending session id are null and loading
\* is false.
TerminalTransition ==
  \A e \in TerminalEvents :
    LET R == handleEvent(View, e)
    IN /\ Len(R.messages) = Len(messages)
       /\ \A i \in 1..Len(messages) :
            /\ R.messages[i].id = messages[i].id
            /\ messages[i].id = lastMessageId
                 => R.messages[i].status = "complete"
       /\ R.lastMessageId = NULL
       /\ R.pendingSessionId = NULL
       /\ R.isLoading = FALSE

\* a terminal event ended the turn of a session this client created
TerminalTransitionWitness ==
  /\ lastOp.op = "event" /\ lastOp.br = "terminal"
  /\ currentSessionId = NewSessionId(1)
  /\ pendingSessionId = NULL /\ lastMessageId = NULL /\ ~isLoading
  /\ \E i \in 1..Len(messages) :
       messages[i].role = "assistant" /\ messages[i].status = "complete"

\* C6: a message, part or terminal event of a session other than the
\* current one changes neither the messages, nor the active assistant
\* message id, nor loading.
OtherSessionEventsIgnored ==
  \A e \in Events :
    (currentSessionId # NULL /\ e.sessionID # currentSessionId)
      => Observed(handleEvent(View, e)) = Observed(View)

\* C9: with a connected client, switchSession(id) while pendingSessionId
\* is id issues no history fetch and leaves the messages alone, and
\* switchSession of an id that is neither the pending nor the current one
\* issues a history fetch for it.
PendingSwitchProtected ==
  [][\A sid \in SessionIds :
       (client /\ pendingSessionId # NULL /\ switchSession(sid))
         => IF pendingSessionId = sid
            THEN loads' = loads /\ messages' = messages
            ELSE sid # currentSessionId => loads'[sid] = loads[sid] + 1]_vars

\* the step runs sendMessage(text) from setLoading(true) on: at once when
\* there is a session, or when the session it awaited has been created
SendProceeds(text) ==
  \/ currentSessionId # NULL /\ sendMessage(text)
  \/ \E i \in 1..Len(creating) : creating[i] = text /\ CreateReturn(i, TRUE)

SendFailureKeepsMessage ==
  [][(Len(prompts["send"]) > 0 /\ prompts'["send"] # prompts["send"]
        /\ PromptReturn("send", FALSE))
       => /\ error' = RequestError
          /\ ~isLoading'
          /\ messages' = messages]_vars

\* the dispatch failed and the user message it followed is still there
SendFailureKeepsMessageWitness ==
  /\ lastOp = Op("promptReturn", "none", "failed")
  /\ error = RequestError /\ ~isLoading
  /\ clock = 1 /\ prompts["send"] = <<>>
  /\ \E i \in 1..Len(messages) :
       /\ messages[i].id = userMessageIdAt(1)
       /\ messages[i].role = "user" /\ messages[i].status = "complete"

\* the Store holds a message of the user
HasUserMessage(msgs) == \E i \in 1..Len(msgs) : msgs[i].role = "user"

\* the position of the most recent message of the user
MostRecentUser(msgs) ==
  CHOOSE k \in 1..Len(msgs) :
    msgs[k].role = "user" /\ \A j \in 1..Len(msgs) : msgs[j].role = "user" => j <= k

\* C12: regenerateLastMessage on a Store that holds a user message, with a
\* connected client and a current session, cuts the Store to the prefix
\* ending at the most recent user message, sets loading, and dispatches a
\* prompt for the current session whose text is that message's content.
RegenerateTruncates ==
  [][(client /\ currentSessionId # NULL /\ HasUserMessage(messages)
        /\ prompts'["regen"] # prompts["regen"] /\ regenerateLastMessage)
       => LET k == MostRecentUser(messages)
          IN /\ messages' = SubSeq(messages, 1, k)
             /\ isLoading'
             /\ prompts'["regen"] =
                  Append(prompts["regen"],
                         Prompt(currentSessionId, messages[k].content))]_vars

\* regeneration discarded the assistant message that was streaming: the
\* Store ends with the user message whose text went out again
RegenerateTruncatesWitness ==
  /\ lastOp = Op("regenerate", "none", "dispatched")
  /\ Len(messages) = 1 /\ messages[1].role = "user"
  /\ lastMessageId \in AssistantIds /\ ~HasMessage(messages, lastMessageId)
  /\ isLoading
  /\ prompts["regen"] = <<Prompt(currentSessionId, messages[1].content)>>

\* C13: regenerateLastMessage on a Store without a user message throws
\* and changes nothing: the messages, loading, the error slot, the turn
\* bookkeeping and the requests in flight are as before.
RegenerateWithoutUserFails ==
  [][(~HasUserMessage(messages) /\ regenerateLastMessage)
       => /\ lastOp'.br \in {"threw", "notConnected"}
          /\ UNCHANGED <<messages, isLoading, error, lastMessageId,
                         userMessageIds, pendingSessionId, prompts,
                         currentSessionId>>]_vars

\* regeneration was refused on a Store that holds an assistant message only
RegenerateWithoutUserFailsWitness ==
  /\ lastOp = Op("regenerate", "none", "threw")
  /\ Len(messages) > 0 /\ ~HasUserMessage(messages)
  /\ prompts["regen"] = <<>>

\* the text session.error puts in the error slot
ErrorTextOf(e) ==
  IF e.message # NULL THEN e.message
  ELSE IF e.error # NULL THEN e.error ELSE "Session error occurred"

\* C14: after session.error, handled in any state, the error slot holds
\* the event's message (or error) text; every message is kept with its
\* parts, those under the active id marked complete; the active assistant
\* message id and the pending session id are null and loading is false,
\* as after an idle event.
SessionErrorCleansUp ==
  \A e \in ErrorEvents :
    LET R == handleEvent(View, e)
        idle == handleEvent(View, IdleEvent(e.sessionID))
    IN /\ R.error = ErrorTextOf(e)
       /\ Len(R.messages) = Len(messages)
       /\ \A i \in 1..Len(messages) :
            R.messages[i] = IF messages[i].id = lastMessageId
                            THEN [messages[i] EXCEPT !.status = "complete"]
                            ELSE messages[i]
       /\ R.lastMessageId = NULL
       /\ R.pendingSessionId = NULL
       /\ R.isLoading = FALSE
       /\ Observed(R) = Observed(idle)

\* a session.error ended a turn whose assistant message had streamed a part
SessionErrorCleansUpWitness ==
  /\ lastOp = Op("event", "none", "sessionError")
  /\ error = "boom" /\ ~isLoading /\ lastMessageId = NULL
  /\ \E i \in 1..Len(messages) :
       /\ messages[i].role = "assistant"
       /\ messages[i].status = "complete"
       /\ Len(messages[i].parts) = 1

\* C15: loading does not stay set: a dispatch call that fails leaves
\* loading false, and whenever loading is true it is false again later,
\* given that an event that ends the turn is delivered and handled.
LoadingEventuallyCleared ==
  /\ [](lastOp = Op("promptReturn", "none", "failed") => ~isLoading)
  /\ isLoading ~> ~isLoading

\* a message was sent, its dispatch was accepted, and an event that ended
\* the turn cleared loading
LoadingEventuallyClearedWitness ==
  /\ lastOp.op = "event" /\ lastOp.br \in {"terminal", "sessionError"}
  /\ ~isLoading /\ clock = 1
  /\ prompts["send"] = <<>> /\ prompts["regen"] = <<>>
  /\ HasUserMessage(messages) /\ error # RequestError

\* C16: abortSession changes no local conversation state, neither when it
\* is called nor when its request succeeds or fails, and without a current
\* session it sends no request.
AbortLeavesState ==
  [][(abortSession \/ \E ok \in BOOLEAN : AbortReturn(ok))
       => /\ UNCHANGED <<messages, isLoading, error, lastMessageId,
                         userMessageIds, pendingSessionId, currentSessionId,
                         sessions, prompts>>
          /\ (abortSession /\ currentSessionId = NULL) => calls' = calls]_vars

\* an abort sent during a turn failed, and the turn is still loading
AbortLeavesStateWitness ==
  /\ lastOp = Op("abortReturn", "none", "failed")
  /\ isLoading /\ Len(messages) > 0 /\ calls.abort = 0

NoIdTwice(list) ==
  \A i, j \in 1..Len(list) : list[i].id = list[j].id => i = j

\* the sessions of `list` other than `id`, as a set
Remaining(list, id) == {list[i] : i \in {k \in 1..Len(list) : list[k].id # id}}

\* C17: deleteSession changes local state only when the server call
\* succeeds.  On success the directory no longer holds the deleted session
\* and, if that session is the current one, the current session becomes a
\* remaining one of greatest updatedAt, or null with no messages when none
\* remains.  On failure the directory, the current session and the messages
\* are unchanged.
DeleteReselectsCurrent ==
  [][\A ok \in BOOLEAN :
       DeleteReturn(ok) =>
         LET d == Head(calls.delete)
             rest == Remaining(sessions, d.id)
         IN IF ok
            THEN /\ ~HasSession(sessions', d.id)
                 /\ currentSessionId = d.id =>
                      IF rest = {}
                      THEN currentSessionId' = NULL /\ messages' = <<>>
                      ELSE \E r \in rest :
                             /\ currentSessionId' = r.id
                             /\ \A o \in rest : o.updatedAt <= r.updatedAt
            ELSE UNCHANGED <<sessions, currentSessionId, messages>>]_vars

\* C17, with "was the current session" read when deleteSession was called:
\* the same, and a session that was not current then leaves the current
\* session and the messages alone.
DeleteOnSuccessOnly ==
  [][\A ok \in BOOLEAN :
       DeleteReturn(ok) =>
         LET d == Head(calls.delete)
             rest == Remaining(sessions, d.id)
         IN IF ok
            THEN /\ ~HasSession(sessions', d.id)
                 /\ {sessions'[i] : i \in 1..Len(sessions')} = rest
                 /\ d.wasCurrent =>
                      IF rest = {}
                      THEN currentSessionId' = NULL /\ messages' = <<>>
                      ELSE \E r \in rest :
                             /\ currentSessionId' = r.id
                             /\ \A o \in rest : o.updatedAt <= r.updatedAt
                 /\ ~d.wasCurrent =>
                      UNCHANGED <<currentSessionId, messages>>
            ELSE UNCHANGED <<sessions, currentSessionId, messages>>]_vars

\* the current session was deleted and the more recent of the two that
\* remained was selected
DeleteOnSuccessOnlyWitness ==
  /\ lastOp = Op("deleteReturn", "none", "reselected")
  /\ Len(sessions) = 2 /\ currentSessionId = sessions[1].id
  /\ sessions[1].updatedAt > sessions[2].updatedAt

\* C18: session.created and session.updated upsert into the directory by
\* id and never remove: no id is listed twice, and after any such event
\* every id listed before is still listed, the event's id is listed, and no
\* id is listed twice.
DirectoryUpsert ==
  /\ NoIdTwice(sessions)
  /\ \A e \in SessionInfoEvents :
       LET after == handleEvent(View, e).sessions
       IN /\ IdsOf(sessions) \subseteq IdsOf(after)
          /\ e.info # NoInfo => e.info.id \in IdsOf(after)
          /\ NoIdTwice(after)

\* session.updated changed an entry of a directory of three in place
DirectoryUpsertWitness ==
  /\ lastOp = Op("event", "none", "sessionUpdated")
  /\ Len(sessions) = 3
  /\ \E i \in 2..3 : sessions[i].id = "A" /\ sessions[i].title = "T2"

\* C19: when the event stream is re-established after a drop, the client
\* starts the session load or a history load again.
ReconnectResyncs ==
  [][(conn.stream = "lost" /\ conn'.stream = "open")
       => \/ listing' > listing
          \/ \E sid \in SessionIds : loads'[sid] > loads[sid]]_vars

\* C20: a frame that is not JSON changes no state (messages, sessions,
\* loading, error, permission, current session, bookkeeping, requests in
\* flight); it is logged, and the stream stays open with the client in
\* place, so the frames after it are handled.
BadFrameDiscarded ==
  [][\A frame \in BadFrames :
       OnMessage(frame)
         => /\ UNCHANGED <<messages, sessions, isLoading, error,
                           pendingPermission, currentSessionId, lastMessageId,
                           userMessageIds, pendingSessionId, prompts, loads,
                           creating, listing, calls, client>>
            /\ conn'.stream = "open"
            /\ conn'.logged = conn.logged + 1]_vars

\* a frame was discarded and a later frame created the assistant message
BadFrameDiscardedWitness ==
  /\ conn.logged > 0 /\ conn.stream = "open"
  /\ lastOp = Op("event", "created", "assistant")
  /\ Len(messages) = 1

\* the events the stream of SpecStream delivers to the handler
StreamEvents ==
  {StreamFrames[i][2] : i \in {k \in 1..Len(StreamFrames) :
                                 ~handleEventThrows(StreamFrames[k][2])}}

\* C21: server.heartbeat, server.connected and an event of a type that is
\* not recognized change nothing the handler owns (messages, sessions,
\* loading, error, pending permission, the three refs), and the event that
\* comes after is handled as if they had not come.
UnknownEventIgnored ==
  \A e \in IgnoredEvents :
    /\ After(handleEvent(View, e)) = View
    /\ \A e2 \in StreamEvents :
         handleEvent(After(handleEvent(View, e)), e2) = handleEvent(View, e2)

\* a heartbeat was handled in the middle of a turn
UnknownEventIgnoredWitness ==
  /\ lastOp = Op("event", "none", "none")
  /\ isLoading /\ lastMessageId = "m1" /\ Len(messages) = 2

\* C30: the event handler never throws, whatever the event carries.
HandlerNeverThrows == lastOp # Op("frame", "none", "threw")

\* the index of the first "/" of str
FirstSlash(str) ==
  CHOOSE k \in 1..Len(str) :
    str[k] = Slash /\ \A j \in 1..(k - 1) : str[j] # Slash

\* the provider and model the identifier names: split on its first "/"
ModelNamed(cfg) ==
  IF includesSlash(cfg.selectedModel)
  THEN [providerID |-> SubSeq(cfg.selectedModel, 1,
                              FirstSlash(cfg.selectedModel) - 1),
        modelID |-> SubSeq(cfg.selectedModel,
                           FirstSlash(cfg.selectedModel) + 1,
                           Len(cfg.selectedModel))]
  ELSE [providerID |-> cfg.selectedProvider, modelID |-> cfg.selectedModel]

\* C22: every dispatch of sendMessage and regenerateLastMessage names the
\* provider and model got by splitting the identifier on its first "/":
\* the text before it and all the text after it, further "/" included;
\* without a "/", the default provider and the whole identifier.
ModelSplitOnFirstSlash ==
  [][\A kind \in {"send", "regen"} :
       Len(prompts'[kind]) > Len(prompts[kind])
         => prompts'[kind][Len(prompts'[kind])].model = ModelNamed(config)]_vars

AppendIdempotent ==
  \A i \in 1..Len(messages) : addMessage(messages, messages[i]) = messages

\* C25: message.created / message.updated of an assistant message.  When
\* the Store has no message with the id, one message is appended (no parts,
\* no content, streaming) and becomes the active assistant message; when it
\* has one, the messages are unchanged and only the active assistant
\* message id is set, to that id.
AssistantMessageEvent ==
  \A e \in {m \in MessageEvents : m.info.role = "assistant"} :
    LET R == After(handleEvent(View, e))
    IN /\ R.lastMessageId = e.info.id
       /\ R = [View EXCEPT !.lastMessageId = e.info.id,
                           !.messages = R.messages]
       /\ IF HasMessage(messages, e.info.id)
          THEN R.messages = messages
          ELSE /\ Len(R.messages) = Len(messages) + 1
               /\ SubSeq(R.messages, 1, Len(messages)) = messages
               /\ R.messages[Len(R.messages)] =
                    [id |-> e.info.id, role |-> "assistant", content |-> "",
                     status |-> "streaming", parts |-> <<>>]

\* a message event named a message that already had a part
AssistantMessageEventWitness ==
  /\ lastOp = Op("event", "adopted", "assistant")
  /\ \E i \in 1..Len(messages) :
       messages[i].id = lastMessageId /\ Len(messages[i].parts) > 0

\* the message with that id holds a part under the event's key that shows
\* the event's content
HoldsPart(msgs, id, part) ==
  \E i \in 1..Len(msgs) :
    /\ msgs[i].id = id
    /\ \E k \in KeyIndexes(msgs[i].parts, part) :
         ShowsEvent(msgs[i].parts[k], part)

\* C26: a message.part.updated that is not suppressed goes to the active
\* assistant message whenever one is set, also when part.messageID names
\* another message: that other message is neither created nor changed and
\* the active message stays the active one.  Only when none is active does
\* it go to the message part.messageID names.
PartTargetResolution ==
  \A e \in {u \in UpsertEvents :
               u.part.messageID = NULL
                 \/ u.part.messageID \notin userMessageIds} :
    LET R == handleEvent(View, e)
        named == e.part.messageID
    IN IF lastMessageId # NULL
       THEN /\ R.lastMessageId = lastMessageId
            /\ Len(R.messages) = Len(messages)
            /\ \A i \in 1..Len(messages) :
                 messages[i].id # lastMessageId
                   => R.messages[i] = messages[i]
            /\ HasMessage(messages, lastMessageId)
                 => HoldsPart(R.messages, lastMessageId, e.part)
       ELSE named # NULL
              => /\ R.lastMessageId = named
                 /\ HoldsPart(R.messages, named, e.part)
                 /\ \A i \in 1..Len(messages) :
                      messages[i].id # named => R.messages[i] = messages[i]

\* a part that names m1 went to s1, the active message
PartTargetResolutionWitness ==
  /\ lastOp.op = "event" /\ lastOp.br \in {"append", "replace"}
  /\ lastMessageId = "s1"
  /\ \E i \in 1..Len(messages) :
       /\ messages[i].id = "s1"
       /\ \E k \in 1..Len(messages[i].parts) :
            messages[i].parts[k] = Part("text", "p2", "b")
  /\ ~HasMessage(messages, "m1")

\* what the entry stored for a tool part must be for the state it is in
ShowsTool(p, part) ==
  /\ p.id = part.id
  /\ CASE part.state.status = "completed" ->
            /\ p.type = "tool_result" /\ p.status = "completed"
            /\ p.toolOutput = IF IsJson(part.state.output)
                              THEN JsonParse(part.state.output)
                              ELSE part.state.output
       [] part.state.status = "error" ->
            /\ p.type = "tool_result" /\ p.status = "error"
            /\ p.toolOutput = NULL
       [] OTHER -> p.type = "tool_use" /\ p.status = part.state.status

\* C27: a tool part keeps one entry through its life.  A tool event whose
\* part id the target message holds as an invocation or a result puts its
\* entry at that index (an invocation for pending and running, a result
\* with the output for completed, a result with status error and no output
\* for error), leaves the other parts where and as they were, and leaves
\* one entry for the id.
ToolEntryKept ==
  \A e \in {ToolPartEvent("A", mid, pid, st) :
              mid \in {"m1", "m2"}, pid \in PartIds, st \in ToolLifecycle} :
    LET R == handleEvent(View, e)
        target == TargetOfEvent(View, e)
    IN e.part.messageID \notin userMessageIds
       => \A i \in 1..Len(messages) :
            messages[i].id = target
              => LET old == messages[i].parts
                     new == R.messages[i].parts
                 IN \A k \in KeyIndexes(old, e.part) :
                      /\ Len(new) = Len(old)
                      /\ ShowsTool(new[k], e.part)
                      /\ \A j \in 1..Len(old) : j # k => new[j] = old[j]
                      /\ KeyIndexes(new, e.part) = {k}

\* the entry of a tool that followed a text part was replaced, where it
\* was, by the result
ToolEntryKeptWitness ==
  /\ lastOp = Op("event", "none", "replace")
  /\ Len(messages) = 1 /\ Len(messages[1].parts) = 2
  /\ messages[1].parts[1].type = "text"
  /\ messages[1].parts[2].type = "tool_result"
  /\ messages[1].parts[2].status = "completed"

\* C28: right after sendMessage or regenerateLastMessage has dispatched a
\* turn, no assistant message is active and loading is true, whatever was
\* handled before.
AwaitingFirstPart ==
  [][(\E kind \in {"send", "regen"} :
        Len(prompts'[kind]) > Len(prompts[kind]))
       => lastMessageId' = NULL /\ isLoading']_vars

\* C29: when sendMessage finds no current session and creating one fails,
\* the error slot holds the failure's message and loading is false.
CreateFailureSurfaced ==
  [][\A i \in 1..Len(creating) :
       (creating[i] # NULL /\ CreateReturn(i, FALSE))
         => error' = RequestError /\ ~isLoading']_vars

\* C31: after the session list has been loaded, the directory holds the
\* sessions in the order the server returned them.
ListOrderPreserved ==
  [][\A data \in ServerLists :
       ListReturn(TRUE, data) => sessions' = mapSessionList(data)]_vars

\* C32: after createSession succeeds the directory holds an entry for the
\* new session, which is the current one.
CreatedSessionListed ==
  [][\A i \in 1..Len(creating) :
       CreateReturn(i, TRUE)
         => /\ currentSessionId' = NewSessionId(created + 1)
            /\ HasSession(sessions', currentSessionId')]_vars

\* C33: whenever an assistant message is active, the Store holds the
\* message it names.
ActiveMessagePresent ==
  lastMessageId # NULL => HasMessage(messages, lastMessageId)

\* C34: once a terminal event has been handled, no message of the Store
\* has status streaming, also when the turn produced two assistant
\* messages.
NoStreamingAfterTerminal ==
  (lastOp.op = "event" /\ lastOp.br \in {"terminal", "sessionError"})
    => \A i \in 1..Len(messages) : messages[i].status # "streaming"

\* C35: no part update is lost: after a text, reasoning or tool part event
\* that names a message which is not a known user message, some message of
\* the Store holds a part with the part's id.
NoPartLost ==
  \A e \in {u \in UpsertEvents :
               u.part.messageID # NULL
                 /\ u.part.messageID \notin userMessageIds} :
    LET R == handleEvent(View, e)
    IN \E i \in 1..Len(R.messages) :
         \E k \in 1..Len(R.messages[i].parts) :
           R.messages[i].parts[k].id = e.part.id

\* C36: the ids of the messages of the Store are pairwise distinct.
MessageIdsDistinct ==
  \A i, j \in 1..Len(messages) : messages[i].id = messages[j].id => i = j

\* C37: a permission request that arrived while the answer to an earlier
\* request was awaiting the server is still the pending permission after
\* that answer completes.
NewerPermissionKept ==
  [][\A ok \in BOOLEAN :
       (/\ PermissionReturn(ok)
        /\ pendingPermission # NoPermission
        /\ pendingPermission.id # Head(calls.permission).id)
       => pendingPermission' = pendingPermission]_vars

\* C38: the response to a history fetch for a session that is no longer
\* the current one is discarded: it changes neither the Store's messages
\* nor the set of known user message ids.
StaleHistoryDiscarded ==
  [][\A sid \in SessionIds, data \in Histories :
       (LoadReturn(sid, TRUE, data) /\ sid # currentSessionId)
       => /\ messages' = messages
          /\ userMessageIds' = userMessageIds]_vars

\* C39: when the history fetch for the current session completes while a
\* turn is in flight (loading is set and the dispatch of a sent message is
\* still awaiting), every message of the Store is still there afterwards
\* and loading is still set.
LoadKeepsTurn ==
  [][\A sid \in SessionIds, ok \in BOOLEAN, data \in Histories :
       (/\ LoadReturn(sid, ok, data)
        /\ sid = currentSessionId
        /\ isLoading /\ Len(prompts["send"]) > 0)
       => /\ isLoading'
          /\ \A i \in 1..Len(messages) :
               \E j \in 1..Len(messages') : messages'[j] = messages[i]]_vars

\* C40: when the return of deleteSession or of the session-list load
\* selects a current session other than the one that was current, the
\* active assistant message id and the pending session id are null
\* afterwards and no user message id recorded before is still known.
SessionChangeResets ==
  [][(/\ \/ \E ok \in BOOLEAN : DeleteReturn(ok)
         \/ \E ok \in BOOLEAN, data \in ServerLists : ListReturn(ok, data)
      /\ currentSessionId # NULL
      /\ currentSessionId' # currentSessionId)
     => /\ lastMessageId' = NULL
        /\ pendingSessionId' = NULL
        /\ userMessageIds' \cap userMessageIds = {}]_vars
====
